---- MODULE Spec2Model ----
(***************************************************************************)
(* Model of web/server.js: an Express application whose middleware stack   *)
(* is three express.static layers (one mounted at /web), the GET /health   *)
(* route, the GET / route and, after the stack, the default 404 handler.   *)
(* The file system is read-only; a request walks the stack layer by layer, *)
(* and a static layer answers over several callbacks: one per fs.stat and  *)
(* one when the stream of the file ends.                                   *)
(***************************************************************************)
EXTENDS Naturals, Sequences, FiniteSets, TLC

VARIABLES fs, reqs

vars == <<fs, reqs>>

\* ---- bounds ----
MaxSegs == 2
MaxFiles == 2
MaxInFlight == 2

\* ---- names: a path segment is a sequence of chunks, "." being a chunk ----
Dot == "."
CurSeg == <<Dot>>
UpSeg == <<Dot, Dot>>
WebSeg == <<"web">>
BuyerSeg == <<"buyer">>
HealthSeg == <<"health">>
EnvSeg == <<Dot, "env">>
IndexHtml == <<"index", Dot, "html">>
HtmlExt == <<Dot, "html">>
UpperHealthSeg == <<"HEALTH">>

Segments == {WebSeg, HealthSeg, UpSeg, EnvSeg, IndexHtml, UpperHealthSeg}

Methods == {"GET", "HEAD", "POST", "OPTIONS"}

SeqsUpTo(n) == UNION {[1..k -> Segments] : k \in 0..n}

\* a request path: its segments and whether it ends in "/"; "/" itself is
\* the empty sequence with the slash
Paths == {p \in [segs : SeqsUpTo(MaxSegs), slash : BOOLEAN] : p.segs = <<>> => p.slash}

\* ---- directories of the deployment ----
Base == <<(<<"app">>)>>
WEB_DIR == Base \o <<WebSeg>>
ServerJs == Base \o <<(<<"server", Dot, "js">>)>>

IsPrefix(a, b) == Len(a) <= Len(b) /\ SubSeq(b, 1, Len(a)) = a
IsProperPrefix(a, b) == Len(a) < Len(b) /\ SubSeq(b, 1, Len(a)) = a

\* the last one lies outside both roots
FileCandidates ==
  { WEB_DIR \o <<IndexHtml>>,
    WEB_DIR \o <<HealthSeg>>,
    WEB_DIR \o <<HealthSeg \o HtmlExt>>,
    WEB_DIR \o <<HealthSeg, IndexHtml>>,
    WEB_DIR \o <<EnvSeg>>,
    WEB_DIR \o <<IndexHtml \o HtmlExt>>,
    Base \o <<IndexHtml>>,
    Base \o <<HealthSeg \o HtmlExt>>,
    <<HealthSeg>> }

Consistent(S) == \A f \in S, g \in S : ~IsProperPrefix(f, g)

\* the files on disk: server.js itself plus at most MaxFiles others
FSStates == {S \cup {ServerJs} : S \in {T \in SUBSET FileCandidates :
                                         Cardinality(T) <= MaxFiles /\ Consistent(T)}}

\* ---- fs.stat ----
IsDir(path) == \/ IsPrefix(path, Base)
               \/ \E f \in fs : IsProperPrefix(path, f)

Stat(path) == IF path \in fs THEN "file"
              ELSE IF IsDir(path) THEN "dir"
              ELSE IF \E f \in fs : IsProperPrefix(f, path) THEN "ENOTDIR"
              ELSE "ENOENT"

\* ---- path helpers ----
Last(s) == s[Len(s)]
Front(s) == SubSeq(s, 1, Len(s) - 1)

RECURSIVE NormalizeFrom(_, _)
NormalizeFrom(acc, rest) ==
  IF rest = <<>> THEN acc
  ELSE LET s == Head(rest) IN
       IF s = CurSeg THEN NormalizeFrom(acc, Tail(rest))
       ELSE IF s = UpSeg
            THEN IF acc # <<>> /\ Last(acc) # UpSeg
                 THEN NormalizeFrom(Front(acc), Tail(rest))
                 ELSE NormalizeFrom(Append(acc, UpSeg), Tail(rest))
            ELSE NormalizeFrom(Append(acc, s), Tail(rest))

\* path.normalize('./' + path): ".." survives only at the front
Normalize(segs) == NormalizeFrom(<<>>, segs)

RECURSIVE DropLeadingUp(_)
DropLeadingUp(segs) == IF segs # <<>> /\ Head(segs) = UpSeg
                       THEN DropLeadingUp(Tail(segs)) ELSE segs

JoinNoRoot(root, n) == n

\* path.normalize(path.join(root, path)) for an absolute root
Join(root, n) == DropLeadingUp(Normalize(root \o n))

UpPathNever(n) == FALSE

\* UP_PATH_REGEXP on the normalized relative path
UpPath(n) == n # <<>> /\ Head(n) = UpSeg

LastDot(seg) == IF \E i \in 1..Len(seg) : seg[i] = Dot
                THEN CHOOSE i \in 1..Len(seg) :
                       seg[i] = Dot /\ \A j \in (i+1)..Len(seg) : seg[j] # Dot
                ELSE 0

\* path.extname of a path's last segment
ExtName(path) == IF path = <<>> THEN <<>>
                 ELSE LET seg == Last(path)
                          i == LastDot(seg)
                      IN IF i <= 1 \/ seg = UpSeg THEN <<>>
                         ELSE SubSeq(seg, i, Len(seg))

AddExt(path) == Front(path) \o <<Last(path) \o HtmlExt>>

IsDotName(seg) == Len(seg) > 1 /\ seg[1] = Dot

\* dotfiles are not set by server.js: a path whose last part begins with a
\* dot is ignored (answered as not found)
DotFileIgnored(n, slash) == ~slash /\ n # <<>> /\ IsDotName(Last(n))

\* ---- responses ----
NoLoc == [segs |-> <<>>, slash |-> FALSE]
NextLayer == [status |-> 0, kind |-> "next", file |-> <<>>, loc |-> NoLoc, body |-> FALSE]
NoResp == [status |-> 0, kind |-> "none", file |-> <<>>, loc |-> NoLoc, body |-> FALSE]
ErrorOf(code) == [status |-> code, kind |-> "error", file |-> <<>>, loc |-> NoLoc, body |-> FALSE]
FileResp(m, path) == [status |-> 200, kind |-> "file", file |-> path, loc |-> NoLoc, body |-> (m = "GET")]
DirRedirect(m, orig) == [status |-> 301, kind |-> "redirect", file |-> <<>>,
                         loc |-> [segs |-> orig.segs, slash |-> TRUE], body |-> (m = "GET")]
HealthText(m) == [status |-> 200, kind |-> "text", file |-> <<>>, loc |-> NoLoc, body |-> (m = "GET")]
HealthJson(m) == [status |-> 200, kind |-> "json", file |-> <<>>, loc |-> NoLoc, body |-> (m = "GET")]
BuyerLoc == [segs |-> <<WebSeg, BuyerSeg>>, slash |-> TRUE]
RootRedirect(m) == [status |-> 302, kind |-> "redirect", file |-> <<>>, loc |-> BuyerLoc, body |-> (m = "GET")]
AllowResp == [status |-> 200, kind |-> "options", file |-> <<>>, loc |-> NoLoc, body |-> TRUE]
NotFound(m) == [status |-> 404, kind |-> "notfound", file |-> <<>>, loc |-> NoLoc, body |-> (m # "HEAD")]

\* ---- send: its synchronous start, then one callback per fs.stat ----
PendingOn(k) == [status |-> 0, kind |-> k, file |-> <<>>, loc |-> NoLoc, body |-> FALSE]
Waits == {"stat", "statExt", "statIndex"}

StaticMethodAny(m) == TRUE

\* serve-static passes any other method on without looking at the disk
StaticMethod(m) == m \in {"GET", "HEAD"}

\* send() up to its first fs.stat: an error, or the stat that is issued
SendStart(segs, slash) ==
  LET n == Normalize(segs) IN
  IF UpPath(n) THEN ErrorOf(403)
  ELSE IF DotFileIgnored(n, slash) THEN ErrorOf(404)
  ELSE IF slash THEN PendingOn("statIndex")
  ELSE PendingOn("stat")

SendIndexOff(m, path) == ErrorOf(404)

\* callback of fs.stat(path/index.html)
SendIndex(m, path) ==
  IF Stat(path \o <<IndexHtml>>) = "file" THEN FileResp(m, path \o <<IndexHtml>>)
  ELSE ErrorOf(404)

SendFileNoExtensions(m, path, orig) ==
  LET st == Stat(path) IN
  IF st = "file" THEN FileResp(m, path)
  ELSE IF st = "dir" THEN DirRedirect(m, orig)
  ELSE ErrorOf(404)

\* callback of fs.stat(path): a missing path without extension issues the
\* stat of path.html
SendFile(m, path, orig) ==
  LET st == Stat(path) IN
  IF st = "file" THEN FileResp(m, path)
  ELSE IF st = "dir" THEN DirRedirect(m, orig)
  ELSE IF st = "ENOENT" /\ ExtName(path) = <<>> THEN PendingOn("statExt")
  ELSE ErrorOf(404)

\* callback of fs.stat(path.html)
SendExt(m, path) ==
  IF Stat(AddExt(path)) = "file" THEN FileResp(m, AddExt(path))
  ELSE ErrorOf(404)

\* a whole lookup, start to last callback
Send(root, m, segs, slash, orig) ==
  LET s == SendStart(segs, slash)
      path == Join(root, Normalize(segs))
  IN IF s.kind = "statIndex" THEN SendIndex(m, path)
     ELSE IF s.kind = "stat"
          THEN LET a == SendFile(m, path, orig) IN
               IF a.kind = "statExt" THEN SendExt(m, path) ELSE a
          ELSE s

\* express.static(root, {index, extensions}) with fallthrough
ServeStatic(root, m, segs, slash, orig) ==
  IF ~StaticMethod(m) THEN NextLayer
  ELSE LET r == Send(root, m, segs, slash, orig) IN
       IF r.kind = "error" THEN NextLayer ELSE r

\* ---- the middleware stack, in registration order ----
ChainHealthFirst == <<"health", "mounted", "web", "base", "root">>

Chain == <<"mounted", "web", "base", "health", "root">>

HandlesMethod(m) == m \in {"GET", "HEAD"}

LowerChunk(c) == IF c = "WEB" THEN "web" ELSE IF c = "HEALTH" THEN "health" ELSE c

\* routes and mount paths are matched without regard to case
Lower(seg) == [i \in DOMAIN seg |-> LowerChunk(seg[i])]

MatchHealthPrefix(p) == p.segs # <<>> /\ Lower(Head(p.segs)) = HealthSeg

\* route matching is not strict: "/health/" matches "/health"
MatchHealth(p) == Len(p.segs) = 1 /\ Lower(Head(p.segs)) = HealthSeg
MatchRoot(p) == p.segs = <<>>

\* app.use('/web', ...): the path begins with the segment web
MatchMount(p) == p.segs # <<>> /\ Lower(Head(p.segs)) = WebSeg

\* what one layer does with a request: a response, or NextLayer
LayerOutcome(layer, m, p) ==
  CASE layer = "mounted" ->
         IF MatchMount(p)
         THEN ServeStatic(WEB_DIR, m, Tail(p.segs), p.slash, p)
         ELSE NextLayer
    [] layer = "web" -> ServeStatic(WEB_DIR, m, p.segs, p.slash, p)
    [] layer = "base" -> ServeStatic(Base, m, p.segs, p.slash, p)
    [] layer = "health" ->
         IF MatchHealth(p) /\ HandlesMethod(m) THEN HealthJson(m) ELSE NextLayer
    [] layer = "root" ->
         IF MatchRoot(p) /\ HandlesMethod(m) THEN RootRedirect(m) ELSE NextLayer

\* after the stack: the automatic OPTIONS answer, else 404
FinalOutcome(m, p) ==
  IF m = "OPTIONS" /\ (MatchHealth(p) \/ MatchRoot(p)) THEN AllowResp
  ELSE NotFound(m)

\* ---- requests ----
Idle == [state |-> "idle", method |-> "GET", path |-> [segs |-> <<>>, slash |-> TRUE],
         idx |-> 0, wait |-> "none", resp |-> NoResp, by |-> "none"]

DeliverShared(r, resp, layer) ==
  [q \in DOMAIN reqs |->
     IF reqs[q].state = "active"
     THEN [reqs[q] EXCEPT !.state = "done", !.wait = "none", !.resp = resp, !.by = layer]
     ELSE reqs[q]]

\* the response is written to the request's own res object and ended
Deliver(r, resp, layer) ==
  [reqs EXCEPT ![r].state = "done", ![r].wait = "none", ![r].resp = resp, ![r].by = layer]

\* the headers of a file are written; its body is still being piped
BeginStream(r, resp, layer) ==
  [reqs EXCEPT ![r].state = "sending", ![r].wait = "none", ![r].resp = resp, ![r].by = layer]

\* next(): the request moves to the following layer
Advance(r) == [reqs EXCEPT ![r].idx = @ + 1, ![r].wait = "none"]

\* what becomes of the request after a step of a layer
Settle(r, out, layer) ==
  IF out.kind \in Waits THEN [reqs EXCEPT ![r].wait = out.kind]
  ELSE IF out.kind \in {"error", "next"} THEN Advance(r)
  ELSE IF out.kind = "file" /\ out.body THEN BeginStream(r, out, layer)
  ELSE Deliver(r, out, layer)

Receive(r, m, p) ==
  /\ reqs[r].state = "idle"
  /\ reqs' = [reqs EXCEPT ![r] = [state |-> "active", method |-> m, path |-> p,
                                  idx |-> 1, wait |-> "none", resp |-> NoResp,
                                  by |-> "none"]]
  /\ UNCHANGED fs

\* a request arrives on a free slot, with any method and path
Accept(r) ==
  /\ reqs[r].state = "idle"
  /\ \E m \in Methods, p \in Paths : Receive(r, m, p)

\* the request enters this layer of the stack
AtLayer(r, layer) ==
  /\ reqs[r].state = "active"
  /\ reqs[r].wait = "none"
  /\ reqs[r].idx <= Len(Chain)
  /\ Chain[reqs[r].idx] = layer

LayerRoot(layer) == IF layer = "base" THEN Base ELSE WEB_DIR
LayerRel(layer, p) == IF layer = "mounted" THEN Tail(p.segs) ELSE p.segs

\* the synchronous part of a static layer: next(), or a stat is issued
StaticStart(layer, m, p) ==
  IF layer = "mounted" /\ ~MatchMount(p) THEN NextLayer
  ELSE IF ~StaticMethod(m) THEN NextLayer
  ELSE SendStart(LayerRel(layer, p), p.slash)

\* the path whose stat the request is waiting for
LookupPath(r) ==
  LET layer == Chain[reqs[r].idx] IN
  Join(LayerRoot(layer), Normalize(LayerRel(layer, reqs[r].path)))

MountedStatic(r) ==
  /\ AtLayer(r, "mounted")
  /\ reqs' = Settle(r, StaticStart("mounted", reqs[r].method, reqs[r].path), "mounted")
  /\ UNCHANGED fs

WebStatic(r) ==
  /\ AtLayer(r, "web")
  /\ reqs' = Settle(r, StaticStart("web", reqs[r].method, reqs[r].path), "web")
  /\ UNCHANGED fs

BaseStatic(r) ==
  /\ AtLayer(r, "base")
  /\ reqs' = Settle(r, StaticStart("base", reqs[r].method, reqs[r].path), "base")
  /\ UNCHANGED fs

\* fs.stat(path) calls back
StatCallback(r) ==
  /\ reqs[r].state = "active"
  /\ reqs[r].wait = "stat"
  /\ reqs' = Settle(r, SendFile(reqs[r].method, LookupPath(r), reqs[r].path),
                    Chain[reqs[r].idx])
  /\ UNCHANGED fs

\* fs.stat(path.html) calls back
ExtStatCallback(r) ==
  /\ reqs[r].state = "active"
  /\ reqs[r].wait = "statExt"
  /\ reqs' = Settle(r, SendExt(reqs[r].method, LookupPath(r)), Chain[reqs[r].idx])
  /\ UNCHANGED fs

\* fs.stat(path/index.html) calls back
IndexStatCallback(r) ==
  /\ reqs[r].state = "active"
  /\ reqs[r].wait = "statIndex"
  /\ reqs' = Settle(r, SendIndex(reqs[r].method, LookupPath(r)), Chain[reqs[r].idx])
  /\ UNCHANGED fs

\* the file's stream ends and with it the response
StreamEnd(r) ==
  /\ reqs[r].state = "sending"
  /\ reqs' = [reqs EXCEPT ![r].state = "done"]
  /\ UNCHANGED fs

HealthRoute(r) ==
  /\ AtLayer(r, "health")
  /\ reqs' = Settle(r, LayerOutcome("health", reqs[r].method, reqs[r].path), "health")
  /\ UNCHANGED fs

RootRoute(r) ==
  /\ AtLayer(r, "root")
  /\ reqs' = Settle(r, LayerOutcome("root", reqs[r].method, reqs[r].path), "root")
  /\ UNCHANGED fs

FinalHandler(r) ==
  /\ reqs[r].state = "active"
  /\ reqs[r].idx = Len(Chain) + 1
  /\ reqs' = Deliver(r, FinalOutcome(reqs[r].method, reqs[r].path), "final")
  /\ UNCHANGED fs

\* the response has been sent; the slot is free for the next request
Finish(r) ==
  /\ reqs[r].state = "done"
  /\ reqs' = [reqs EXCEPT ![r] = Idle]
  /\ UNCHANGED fs

Init == /\ fs \in FSStates
        /\ reqs = [r \in 1..1 |-> Idle]

Next == \E r \in 1..1 :
          \/ Accept(r)
          \/ MountedStatic(r)
          \/ WebStatic(r)
          \/ BaseStatic(r)
          \/ StatCallback(r)
          \/ ExtStatCallback(r)
          \/ IndexStatCallback(r)
          \/ StreamEnd(r)
          \/ HealthRoute(r)
          \/ RootRoute(r)
          \/ FinalHandler(r)
          \/ Finish(r)

Spec == Init /\ [][Next]_vars

\* ---- several requests in flight ----
ConcMethods == {"GET", "POST"}
ConcPaths == { [segs |-> <<>>, slash |-> TRUE],
               [segs |-> <<HealthSeg>>, slash |-> FALSE],
               [segs |-> <<WebSeg>>, slash |-> FALSE],
               [segs |-> <<WebSeg>>, slash |-> TRUE] }
ConcFiles == {WEB_DIR \o <<IndexHtml>>, WEB_DIR \o <<HealthSeg \o HtmlExt>>}

AcceptConc(r) ==
  /\ reqs[r].state = "idle"
  /\ \E m \in ConcMethods, p \in ConcPaths : Receive(r, m, p)

InitConc == /\ fs \in {S \cup {ServerJs} : S \in SUBSET ConcFiles}
            /\ reqs = [r \in 1..MaxInFlight |-> Idle]

NextConc == \E r \in 1..MaxInFlight :
              \/ AcceptConc(r)
              \/ MountedStatic(r)
              \/ WebStatic(r)
              \/ BaseStatic(r)
              \/ StatCallback(r)
              \/ ExtStatCallback(r)
              \/ IndexStatCallback(r)
              \/ StreamEnd(r)
              \/ HealthRoute(r)
              \/ RootRoute(r)
              \/ FinalHandler(r)
              \/ Finish(r)

SpecConc == InitConc /\ [][NextConc]_vars

\* ---- vocabulary of the properties ----
Lookups == {"mounted", "web", "base"}

\* the lookups that search for p: the mounted one only under /web
Searched(p) == {l \in Lookups :
                  l = "mounted" => (p.segs # <<>> /\ Lower(Head(p.segs)) = WebSeg)}

RootOf(l) == IF l = "base" THEN Base ELSE WEB_DIR
RelOf(l, p) == IF l = "mounted" THEN Tail(p.segs) ELSE p.segs

\* the place on disk that root/rel names
Target(l, p) == DropLeadingUp(NormalizeFrom(<<>>, RootOf(l) \o RelOf(l, p)))
HtmlTarget(l, p) == IF Target(l, p) = <<>> THEN <<>> ELSE AddExt(Target(l, p))
IndexTarget(l, p) == Target(l, p) \o <<IndexHtml>>

FirstOf(S) == IF "mounted" \in S THEN "mounted" ELSE IF "web" \in S THEN "web" ELSE "base"

NoDotSegment(p) == \A i \in 1..Len(p.segs) : p.segs[i][1] # Dot
Extensionless(p) == p.segs # <<>> /\ ExtName(p.segs) = <<>>
LeavesBase(p) == LET n == NormalizeFrom(<<>>, p.segs) IN n # <<>> /\ Head(n) = UpSeg

Done(r) == reqs[r].state = "done"
Answered(r) == reqs[r].state \in {"sending", "done"}
DoneGet(r) == Done(r) /\ reqs[r].method = "GET"
IsHealthPath(p) == p.segs = <<HealthSeg>> /\ ~p.slash
IsRootPath(p) == p.segs = <<>>
OnHealthRoute(p) == Len(p.segs) = 1 /\ Lower(p.segs[1]) = HealthSeg

\* ---- C1 ----
UnderWeb(p) == Len(p.segs) >= 2 /\ Head(p.segs) = WebSeg /\ ~p.slash
               /\ Target("mounted", p) \in fs

\* C1 as stated: GET /web/x returns 200 and the bytes of web/x whenever that
\* file exists.
C1_AsStated ==
  \A r \in DOMAIN reqs :
    (DoneGet(r) /\ UnderWeb(reqs[r].path))
      => reqs[r].resp = FileResp("GET", Target("mounted", reqs[r].path))

\* C1: GET /web/x returns 200 and the bytes of web/x whenever that file
\* exists and no segment of x begins with a dot.
C1_WebFileServed ==
  \A r \in DOMAIN reqs :
    (DoneGet(r) /\ UnderWeb(reqs[r].path) /\ NoDotSegment(reqs[r].path))
      => reqs[r].resp = FileResp("GET", Target("mounted", reqs[r].path))

C1_Witness ==
  \E r \in DOMAIN reqs :
    /\ DoneGet(r) /\ UnderWeb(reqs[r].path) /\ NoDotSegment(reqs[r].path)
    /\ reqs[r].resp.kind = "file" /\ reqs[r].by = "mounted"

\* ---- C2 ----
NoFileFor(p) ==
  \A l \in Searched(p) :
    /\ Target(l, p) \notin fs
    /\ HtmlTarget(l, p) \notin fs
    /\ IndexTarget(l, p) \notin fs

NoDirFor(p) == \A l \in Searched(p) : ~IsDir(Target(l, p))

NothingFor(p) == /\ ~OnHealthRoute(p) /\ ~IsRootPath(p)
                 /\ NoFileFor(p)
                 /\ (~p.slash => NoDirFor(p))

\* C2 as stated: GET p is 404 whenever p is neither /health nor / and no
\* file exists for p under the three roots.
C2_AsStated ==
  \A r \in DOMAIN reqs :
    (DoneGet(r) /\ ~IsHealthPath(reqs[r].path) /\ ~IsRootPath(reqs[r].path)
       /\ NoFileFor(reqs[r].path))
      => reqs[r].resp.status = 404

\* C2: GET p is 404 whenever p is not /, p does not match the /health route
\* (any case, with or without a trailing slash), no file exists for p under
\* the three roots, and p without a trailing slash names no directory there.
C2_NotFound ==
  \A r \in DOMAIN reqs :
    (DoneGet(r) /\ NothingFor(reqs[r].path))
      => reqs[r].resp = NotFound("GET") /\ reqs[r].by = "final"

C2_Witness ==
  \E r \in DOMAIN reqs :
    /\ DoneGet(r) /\ NothingFor(reqs[r].path)
    /\ Lower(Head(reqs[r].path.segs)) = WebSeg /\ (WEB_DIR \o <<IndexHtml>>) \in fs
    /\ reqs[r].resp.status = 404

\* ---- C3 ----
NoFileNamedHealth == (WEB_DIR \o <<HealthSeg>>) \notin fs /\ (Base \o <<HealthSeg>>) \notin fs

NothingNamedHealth ==
  /\ NoFileNamedHealth
  /\ (WEB_DIR \o <<HealthSeg \o HtmlExt>>) \notin fs
  /\ (Base \o <<HealthSeg \o HtmlExt>>) \notin fs
  /\ ~IsDir(WEB_DIR \o <<HealthSeg>>) /\ ~IsDir(Base \o <<HealthSeg>>)

\* C3 as stated: GET /health is 200 with the JSON body whenever no file
\* named health exists in the roots.
C3_AsStated ==
  \A r \in DOMAIN reqs :
    (DoneGet(r) /\ IsHealthPath(reqs[r].path) /\ NoFileNamedHealth)
      => reqs[r].resp = HealthJson("GET")

\* C3: GET /health is 200 with the JSON body whenever the roots hold no
\* file health, no file health.html and no directory health.
C3_HealthJson ==
  \A r \in DOMAIN reqs :
    (DoneGet(r) /\ IsHealthPath(reqs[r].path) /\ NothingNamedHealth)
      => /\ reqs[r].resp.status = 200 /\ reqs[r].resp.kind = "json"
         /\ reqs[r].resp.body /\ reqs[r].by = "health"

C3_Witness ==
  \E r \in DOMAIN reqs :
    /\ DoneGet(r) /\ IsHealthPath(reqs[r].path) /\ NothingNamedHealth
    /\ (WEB_DIR \o <<IndexHtml>>) \in fs
    /\ reqs[r].resp.kind = "json"

\* ---- C4 ----
\* C4: GET / is always answered with the redirect to /web/buyer/, never
\* with a file.
C4_RootAlwaysRedirects ==
  \A r \in DOMAIN reqs :
    (DoneGet(r) /\ IsRootPath(reqs[r].path))
      => reqs[r].resp.kind = "redirect" /\ reqs[r].resp.loc = BuyerLoc

\* ---- C5 ----
IndexLookups(p) == {l \in Searched(p) : IndexTarget(l, p) \in fs}
IndexFiles(p) == {IndexTarget(l, p) : l \in IndexLookups(p)}

\* C5 as stated: GET p and GET p/ both return the index.html of directory p.
C5_AsStated ==
  \A r \in DOMAIN reqs :
    (DoneGet(r) /\ IndexLookups(reqs[r].path) # {})
      => reqs[r].resp.kind = "file" /\ reqs[r].resp.file \in IndexFiles(reqs[r].path)

\* C5: for a directory p with an index.html, and no segment of p beginning
\* with a dot, GET p/ returns the index.html of the first root holding one;
\* GET p never does: it is redirected (301) to p/ unless an earlier root
\* serves a file p or p.html.
C5_DirectoryIndex ==
  \A r \in DOMAIN reqs :
    LET p == reqs[r].path IN
    (DoneGet(r) /\ IndexLookups(p) # {} /\ NoDotSegment(p))
      => IF p.slash
         THEN reqs[r].resp = FileResp("GET", IndexTarget(FirstOf(IndexLookups(p)), p))
         ELSE /\ reqs[r].resp.file \notin IndexFiles(p)
              /\ \/ reqs[r].resp = DirRedirect("GET", p)
                 \/ \E l \in Searched(p) :
                      reqs[r].resp \in {FileResp("GET", Target(l, p)),
                                        FileResp("GET", HtmlTarget(l, p))}

C5_Witness ==
  \E r \in DOMAIN reqs :
    /\ DoneGet(r) /\ reqs[r].path.slash /\ reqs[r].path.segs # <<>>
    /\ IndexLookups(reqs[r].path) # {} /\ NoDotSegment(reqs[r].path)
    /\ reqs[r].resp.kind = "file"

\* ---- C6 ----
HtmlLookups(p) == {l \in Searched(p) : HtmlTarget(l, p) \in fs}
NoLiteralFile(p) == \A l \in Searched(p) : Target(l, p) \notin fs

HtmlCase(p) == ~p.slash /\ Extensionless(p) /\ NoLiteralFile(p) /\ HtmlLookups(p) # {}

\* C6 as stated: GET p returns p.html whenever p has no extension, no file
\* p exists and a file p.html exists under a searched root.
C6_AsStated ==
  \A r \in DOMAIN reqs :
    (DoneGet(r) /\ HtmlCase(reqs[r].path))
      => /\ reqs[r].resp.kind = "file"
         /\ reqs[r].resp.file \in {HtmlTarget(l, reqs[r].path) : l \in HtmlLookups(reqs[r].path)}

\* C6: GET p returns the p.html of the first root holding one whenever p has
\* no extension and no segment beginning with a dot, and neither a file nor
\* a directory p exists under a searched root; a lookup serves p.html only
\* for a path without extension whose literal file is missing in that root.
C6_HtmlExtension ==
  \A r \in DOMAIN reqs :
    LET p == reqs[r].path IN
    /\ (DoneGet(r) /\ HtmlCase(p) /\ NoDotSegment(p) /\ NoDirFor(p))
         => reqs[r].resp = FileResp("GET", HtmlTarget(FirstOf(HtmlLookups(p)), p))
    /\ (DoneGet(r) /\ ~p.slash /\ NoDotSegment(p))
         => \A l \in Searched(p) :
              (reqs[r].by = l /\ reqs[r].resp.file = HtmlTarget(l, p))
                => Extensionless(p) /\ Target(l, p) \notin fs

C6_Witness ==
  \E r \in DOMAIN reqs :
    /\ DoneGet(r) /\ HtmlCase(reqs[r].path) /\ NoDotSegment(reqs[r].path)
    /\ NoDirFor(reqs[r].path) /\ reqs[r].resp.kind = "file"

\* ---- C7 ----
\* C7: no response carries a file from outside the roots, and a request
\* whose path climbs out of the base directory ends in 403 or 404.
C7_NoTraversal ==
  \A r \in DOMAIN reqs :
    Done(r) => /\ reqs[r].resp.kind = "file" => IsPrefix(Base, reqs[r].resp.file)
               /\ LeavesBase(reqs[r].path) => reqs[r].resp.status \in {403, 404}

C7_Witness ==
  \E r \in DOMAIN reqs :
    /\ DoneGet(r) /\ LeavesBase(reqs[r].path)
    /\ Target("base", reqs[r].path) \in fs
    /\ ~IsPrefix(Base, Target("base", reqs[r].path))
    /\ reqs[r].resp.status = 404

\* ---- C8 ----
Order == <<"mounted", "web", "base", "health", "root", "final">>
PosOf(layer) == CHOOSE i \in 1..Len(Order) : Order[i] = layer
OutcomeAt(i, m, p) == IF Order[i] = "final" THEN FinalOutcome(m, p)
                      ELSE LayerOutcome(Order[i], m, p)

\* C8: a request is at, or was answered by, a step only if every earlier
\* step of the order passed it on, and the answer is that step's; so a file
\* in an earlier root wins and a file named health wins over the JSON.
C8_StrictOrder ==
  \A r \in DOMAIN reqs :
    LET m == reqs[r].method
        p == reqs[r].path
    IN /\ Answered(r) =>
            /\ \A j \in 1..(PosOf(reqs[r].by) - 1) : OutcomeAt(j, m, p).kind = "next"
            /\ reqs[r].resp = OutcomeAt(PosOf(reqs[r].by), m, p)
       /\ reqs[r].state = "active" =>
            \A j \in 1..(reqs[r].idx - 1) : OutcomeAt(j, m, p).kind = "next"

C8_Witness ==
  \E r \in DOMAIN reqs :
    /\ DoneGet(r) /\ IsHealthPath(reqs[r].path)
    /\ (WEB_DIR \o <<HealthSeg \o HtmlExt>>) \in fs
    /\ (Base \o <<HealthSeg \o HtmlExt>>) \in fs
    /\ reqs[r].resp = FileResp("GET", WEB_DIR \o <<HealthSeg \o HtmlExt>>)

\* ---- C9 ----
RECURSIVE AloneFrom(_, _, _)
AloneFrom(i, m, p) ==
  IF i > Len(Chain) THEN FinalOutcome(m, p)
  ELSE LET out == LayerOutcome(Chain[i], m, p) IN
       IF out.kind = "next" THEN AloneFrom(i + 1, m, p) ELSE out

\* the response to a request handled on its own
Alone(m, p) == AloneFrom(1, m, p)

AnsweredAsAlone ==
  \A r \in DOMAIN reqs :
    /\ Answered(r) => reqs[r].resp = Alone(reqs[r].method, reqs[r].path)
    /\ reqs[r].state = "active" => reqs[r].resp = NoResp

OneAtATime ==
  /\ \A r, q \in DOMAIN reqs : (reqs'[r] # reqs[r] /\ reqs'[q] # reqs[q]) => r = q
  /\ \A r \in DOMAIN reqs :
       Answered(r) => (reqs'[r].resp = reqs[r].resp \/ reqs'[r] = Idle)

\* C9: under every interleaving each request gets one response, the one it
\* would get alone, and a step of one request leaves the others untouched.
C9_Independent == [](AnsweredAsAlone) /\ [][OneAtATime]_vars

C9_Witness ==
  \E r, q \in DOMAIN reqs :
    /\ r # q /\ reqs[r].state = "sending" /\ Done(q)
    /\ reqs[r].resp.kind = "file" /\ reqs[q].resp.kind = "redirect"

\* ---- C10 ----
\* C10 as stated: a request that is neither GET nor HEAD ends in 404.
C10_AsStated ==
  \A r \in DOMAIN reqs :
    (Done(r) /\ reqs[r].method \notin {"GET", "HEAD"}) => reqs[r].resp.status = 404

\* C10: a request that is neither GET nor HEAD never gets a file, the
\* health JSON or a redirect; it ends in 404, except OPTIONS on / or on a
\* path matching the /health route, which gets the 200 answer listing the
\* allowed methods.
C10_OtherMethods ==
  \A r \in DOMAIN reqs :
    (Done(r) /\ reqs[r].method \notin {"GET", "HEAD"})
      => /\ reqs[r].by = "final"
         /\ reqs[r].resp.kind \notin {"file", "json", "redirect"}
         /\ IF reqs[r].method = "OPTIONS"
               /\ (IsRootPath(reqs[r].path) \/ OnHealthRoute(reqs[r].path))
            THEN reqs[r].resp = AllowResp
            ELSE reqs[r].resp = NotFound(reqs[r].method)

C10_Witness ==
  \E r \in DOMAIN reqs :
    /\ Done(r) /\ reqs[r].method = "POST"
    /\ UnderWeb(reqs[r].path) /\ NoDotSegment(reqs[r].path)
    /\ reqs[r].resp.status = 404

====
